---- MODULE Spec2Model ----
(***************************************************************************)
(* State-machine model of the PST extraction engine (src/extract/extract.py) *)
(* PSTAnalyzer driven by analyze_directory / analyze_pst_file.             *)
(*                                                                         *)
(* The decoded store (pypff) is the environment: a folder tree whose       *)
(* attribute accessors either yield a value ("ok"), are not there          *)
(* ("absent": AttributeError) or raise another exception ("raises").       *)
(***************************************************************************)
EXTENDS Integers, Sequences, FiniteSets, TLC

(***************************************************************************)
(* Python values.  k is the Python type, v the printed content.            *)
(***************************************************************************)
Text(s) == [k |-> "text", v |-> s]
Bytes(s) == [k |-> "bytes", v |-> s]
IntV(s) == [k |-> "int", v |-> s]
BoolV(s) == [k |-> "bool", v |-> s]
DateV(s) == [k |-> "datetime", v |-> s]
NoneV == [k |-> "none", v |-> "None"]

\* bool(x)
Truthy(x) ==
    CASE x.k = "none" -> FALSE
      [] x.k = "int" -> x.v # "0"
      [] x.k = "bool" -> x.v = "True"
      [] x.k = "datetime" -> TRUE
      [] OTHER -> x.v # ""

\* str(x), also what an f-string puts in for {x}
Str(x) == IF x.k = "bytes" THEN "b'" \o x.v \o "'" ELSE x.v

\* x.decode('utf-8', errors='ignore') applied when isinstance(x, bytes)
DecodeIfBytes(x) == IF x.k = "bytes" THEN Text(x.v) ELSE x

(***************************************************************************)
(* Attribute access on a store object.                                     *)
(***************************************************************************)
Ok(val) == [st |-> "ok", val |-> val]
Absent == [st |-> "absent", val |-> NoneV]
Raises == [st |-> "raises", val |-> NoneV]

\* getattr(obj, attr, default): the value; raising accessors are asked
\* about with GetRaises first.
GetAttr(acc, default) == IF acc.st = "ok" THEN acc.val ELSE default
GetRaises(acc) == acc.st = "raises"
\* hasattr(obj, attr) (Python 3: only AttributeError means "no")
HasAttr(acc) == acc.st = "ok"

(***************************************************************************)
(* Helpers on sequences.                                                   *)
(***************************************************************************)
RECURSIVE Join(_)
\* "".join(chars)
Join(chars) == IF chars = <<>> THEN "" ELSE Head(chars) \o Join(Tail(chars))

RECURSIVE Flatten(_)
Flatten(seqs) == IF seqs = <<>> THEN <<>> ELSE Head(seqs) \o Flatten(Tail(seqs))

\* where a for loop over a collection stops: the first index whose flag is
\* set, Len(raises) + 1 if none
FirstBad(raises) ==
    IF \E i \in 1..Len(raises) : raises[i]
    THEN CHOOSE i \in 1..Len(raises) : raises[i] /\ \A j \in 1..(i - 1) : ~raises[j]
    ELSE Len(raises) + 1

(***************************************************************************)
(* _format_datetime                                                        *)
(***************************************************************************)
FormatDatetime(dt) == IF dt.k = "none" THEN Text("") ELSE Text(Str(dt))

(***************************************************************************)
(* _generate_email_id: the md5 of subject + sender + creation time, or,    *)
(* when building that string raises, an id made from the wall clock.       *)
(***************************************************************************)
IdContent(m) ==
    Str(GetAttr(m.a.subject, Text(""))) \o
    Str(GetAttr(m.a.sender_email_address, Text(""))) \o
    Str(GetAttr(m.a.creation_time, Text("")))

IdRaises(m) ==
    \/ GetRaises(m.a.subject)
    \/ GetRaises(m.a.sender_email_address)
    \/ GetRaises(m.a.creation_time)

\* hashlib.md5(content.encode()).hexdigest()[:16]: one digest per content
Md5Hex16(content) == "md5:" \o content

\* GenerateEmailId with the wall-clock id used for every message
GenerateEmailIdTimed(m, now) == "email_" \o ToString(now)

GenerateEmailId(m, now) ==
    IF IdRaises(m) THEN "email_" \o ToString(now) ELSE Md5Hex16(IdContent(m))

(***************************************************************************)
(* _extract_recipients: best effort, the recipients read before a failure  *)
(***************************************************************************)
RecipientRaises(r) ==
    GetRaises(r.name) \/ GetRaises(r.email_address) \/ GetRaises(r.type)

RecipientData(r) ==
    [name |-> GetAttr(r.name, Text("")),
     email |-> GetAttr(r.email_address, Text("")),
     type |-> GetAttr(r.type, Text(""))]

ExtractRecipients(m) ==
    IF ~HasAttr(m.a.recipients) THEN <<>>
    ELSE [i \in 1..(FirstBad([j \in 1..Len(m.rcpts) |-> RecipientRaises(m.rcpts[j])]) - 1) |-> RecipientData(m.rcpts[i])]

(***************************************************************************)
(* _save_attachment                                                        *)
(***************************************************************************)
AlnumChars == {"a", "b", "c", "e", "h", "m", "n", "t", "x", "0", "1", "2", "3"}
KeptChars == AlnumChars \cup {" ", "-", "_", "."}

\* str.rstrip()
RECURSIVE RStrip(_)
RStrip(chars) ==
    IF chars # <<>> /\ chars[Len(chars)] = " "
    THEN RStrip(SubSeq(chars, 1, Len(chars) - 1))
    ELSE chars

\* f'attachment_{index}'
DefaultAttachmentName(index) ==
    [k |-> "chars",
     v |-> <<"a", "t", "t", "a", "c", "h", "m", "e", "n", "t", "_", ToString(index)>>]

\* SafeFilename without the filter on the characters
SafeFilenameUnfiltered(chars, index) ==
    IF RStrip(chars) = <<>> THEN Join(DefaultAttachmentName(index).v) ELSE Join(RStrip(chars))

\* "".join(c for c in filename if c.isalnum() or c in (' ','-','_','.')).rstrip(),
\* attachment_<index> when that is empty
SafeFilename(chars, index) ==
    LET kept == RStrip(SelectSeq(chars, LAMBDA c : c \in KeptChars))
    IN IF kept = <<>> THEN Join(DefaultAttachmentName(index).v) ELSE Join(kept)

AttachmentsDir(output_dir, email_id) == output_dir \o "/attachments/" \o email_id

\* SaveAttachment returning the path whether or not the payload was written
SaveAttachmentUnchecked(att, output_dir, email_id, index) ==
    AttachmentsDir(output_dir, email_id) \o "/"
        \o SafeFilename(GetAttr(att.name, DefaultAttachmentName(index)).v, index)

\* the path the payload is written to, "" (None) when nothing is saved
SaveAttachment(att, output_dir, email_id, index) ==
    LET filename == GetAttr(att.name, DefaultAttachmentName(index))
        safe == SafeFilename(filename.v, index)
    IN IF att.io = "mkdir" THEN ""
       ELSE IF GetRaises(att.name) \/ filename.k # "chars" THEN ""
       ELSE IF ~HasAttr(att.data) \/ ~Truthy(att.data.val) THEN ""
       ELSE IF att.io = "write" \/ safe \in {".", ".."} THEN ""
       ELSE AttachmentsDir(output_dir, email_id) \o "/" \o safe

(***************************************************************************)
(* _extract_attachments: the records of the attachments read before a      *)
(* failure; each is also appended to the corpus and its payload saved.     *)
(***************************************************************************)
AttachmentRaises(att) ==
    GetRaises(att.name) \/ GetRaises(att.size) \/ GetRaises(att.attachment_type)

NameValue(x) == IF x.k = "chars" THEN Text(Join(x.v)) ELSE x

\* index is the 0-based position enumerate() gives
AttachmentData(att, output_dir, email_id, index) ==
    [email_id |-> email_id,
     index |-> index,
     name |-> NameValue(GetAttr(att.name, DefaultAttachmentName(index))),
     size |-> GetAttr(att.size, IntV("0")),
     type |-> GetAttr(att.attachment_type, Text("")),
     saved_path |-> SaveAttachment(att, output_dir, email_id, index)]

ExtractAttachments(m, output_dir, email_id) ==
    IF ~HasAttr(m.a.attachments) THEN <<>>
    ELSE [i \in 1..(FirstBad([j \in 1..Len(m.atts) |-> AttachmentRaises(m.atts[j])]) - 1) |->
             AttachmentData(m.atts[i], output_dir, email_id, i - 1)]

\* the payloads written by _extract_attachments, in order: <<path, data>>
SavedFiles(m, output_dir, email_id) ==
    LET n == IF HasAttr(m.a.attachments) THEN FirstBad([j \in 1..Len(m.atts) |-> AttachmentRaises(m.atts[j])]) - 1 ELSE 0
        one(i) == LET p == SaveAttachment(m.atts[i], output_dir, email_id, i - 1)
                  IN IF p = "" THEN <<>> ELSE << <<p, m.atts[i].data.val.v>> >>
    IN Flatten([i \in 1..n |-> one(i)])

(***************************************************************************)
(* _extract_single_email.  The attributes are read in the order of the     *)
(* code; getattr's default covers an absent attribute only, so a raising   *)
(* accessor outside _extract_recipients / _extract_attachments /           *)
(* _generate_email_id abandons the message (the except returns None).      *)
(***************************************************************************)
\* read with a bare getattr before the attachments are extracted
AttrsBeforeAttachments ==
    {"subject", "sender_name", "sender_email_address", "plain_text_body", "html_body",
     "delivery_time", "creation_time", "modification_time", "size",
     "message_class", "priority", "importance"}
\* read with a bare getattr after the attachments were extracted and saved
AttrsAfterAttachments == {"categories", "is_read"}

\* body[:1000] on a truthy value that is no text raises TypeError
SliceRaises(x) == Truthy(x) /\ x.k \notin {"text", "bytes"}

\* body[:1000] if body else '' (model bodies are shorter than 1000 characters)
BodyPreview(x) == IF Truthy(x) THEN x ELSE Text("")

AbandonedBeforeAttachments(m) ==
    \/ \E at \in AttrsBeforeAttachments : GetRaises(m.a[at])
    \/ SliceRaises(DecodeIfBytes(GetAttr(m.a.plain_text_body, Text(""))))
    \/ SliceRaises(DecodeIfBytes(GetAttr(m.a.html_body, Text(""))))

AbandonedAfterAttachments(m) ==
    /\ ~AbandonedBeforeAttachments(m)
    /\ \E at \in AttrsAfterAttachments : GetRaises(m.a[at])

Abandoned(m) == AbandonedBeforeAttachments(m) \/ AbandonedAfterAttachments(m)

EmailData(m, folder_path, output_dir, email_id) ==
    [id |-> email_id,
     folder |-> folder_path,
     subject |-> DecodeIfBytes(GetAttr(m.a.subject, Text(""))),
     sender_name |-> DecodeIfBytes(GetAttr(m.a.sender_name, Text(""))),
     sender_email |-> DecodeIfBytes(GetAttr(m.a.sender_email_address, Text(""))),
     recipients |-> ExtractRecipients(m),
     delivery_time |-> FormatDatetime(GetAttr(m.a.delivery_time, NoneV)),
     creation_time |-> FormatDatetime(GetAttr(m.a.creation_time, NoneV)),
     modification_time |-> FormatDatetime(GetAttr(m.a.modification_time, NoneV)),
     size |-> GetAttr(m.a.size, IntV("0")),
     body_plain |-> BodyPreview(DecodeIfBytes(GetAttr(m.a.plain_text_body, Text("")))),
     body_html |-> BodyPreview(DecodeIfBytes(GetAttr(m.a.html_body, Text("")))),
     message_class |-> Text(Str(GetAttr(m.a.message_class, Text("")))),
     priority |-> Text(Str(GetAttr(m.a.priority, Text("")))),
     importance |-> Text(Str(GetAttr(m.a.importance, Text("")))),
     attachments |-> ExtractAttachments(m, output_dir, email_id),
     categories |-> Text(Str(GetAttr(m.a.categories, Text("")))),
     read_flag |-> GetAttr(m.a.is_read, BoolV("False"))]

\* <<record>>, or <<>> for None
ExtractSingleEmail(m, folder_path, output_dir, email_id) ==
    IF Abandoned(m) THEN <<>> ELSE <<EmailData(m, folder_path, output_dir, email_id)>>

\* what _extract_single_email appends to analysis_results['attachments']
\* (through _extract_attachments), also when the message is abandoned later
CorpusAttachmentsOf(m, output_dir, email_id) ==
    IF AbandonedBeforeAttachments(m) THEN <<>>
    ELSE ExtractAttachments(m, output_dir, email_id)

FilesOf(m, output_dir, email_id) ==
    IF AbandonedBeforeAttachments(m) THEN <<>>
    ELSE SavedFiles(m, output_dir, email_id)

(***************************************************************************)
(* The five other item kinds: the record built from one message of the     *)
(* kind's folder; a raising accessor skips that message.                   *)
(***************************************************************************)
KindAttrs(kind) ==
    CASE kind = "contacts" ->
           {"subject", "sender_email_address", "creation_time", "modification_time", "properties"}
      [] kind = "calendar" ->
           {"subject", "creation_time", "sender_name", "plain_text_body", "importance", "properties"}
      [] kind = "tasks" -> {"subject", "plain_text_body", "priority", "creation_time"}
      [] kind = "notes" ->
           {"subject", "plain_text_body", "creation_time", "modification_time", "size"}
      [] kind = "journal" -> {"subject", "plain_text_body", "creation_time"}

KindRaises(kind, m) == \E at \in KindAttrs(kind) : GetRaises(m.a[at])

KindData(kind, m) ==
    CASE kind = "contacts" ->
           [display_name |-> GetAttr(m.a.subject, Text("")),
            email_address |-> GetAttr(m.a.sender_email_address, Text("")),
            business_phone |-> Text(""), home_phone |-> Text(""), mobile_phone |-> Text(""),
            company |-> Text(""), job_title |-> Text(""),
            creation_time |-> FormatDatetime(GetAttr(m.a.creation_time, NoneV)),
            modification_time |-> FormatDatetime(GetAttr(m.a.modification_time, NoneV))]
      [] kind = "calendar" ->
           [subject |-> GetAttr(m.a.subject, Text("")),
            location |-> Text(""),
            start_time |-> FormatDatetime(GetAttr(m.a.creation_time, NoneV)),
            end_time |-> Text(""),
            organizer |-> GetAttr(m.a.sender_name, Text("")),
            attendees |-> <<>>,
            body |-> GetAttr(m.a.plain_text_body, Text("")),
            importance |-> GetAttr(m.a.importance, Text("")),
            creation_time |-> FormatDatetime(GetAttr(m.a.creation_time, NoneV))]
      [] kind = "tasks" ->
           [subject |-> GetAttr(m.a.subject, Text("")),
            body |-> GetAttr(m.a.plain_text_body, Text("")),
            status |-> Text(""),
            priority |-> GetAttr(m.a.priority, Text("")),
            due_date |-> Text(""), start_date |-> Text(""), completion_date |-> Text(""),
            percent_complete |-> IntV("0"),
            creation_time |-> FormatDatetime(GetAttr(m.a.creation_time, NoneV))]
      [] kind = "notes" ->
           [subject |-> GetAttr(m.a.subject, Text("")),
            body |-> GetAttr(m.a.plain_text_body, Text("")),
            creation_time |-> FormatDatetime(GetAttr(m.a.creation_time, NoneV)),
            modification_time |-> FormatDatetime(GetAttr(m.a.modification_time, NoneV)),
            color |-> Text(""),
            size |-> GetAttr(m.a.size, IntV("0"))]
      [] kind = "journal" ->
           [subject |-> GetAttr(m.a.subject, Text("")),
            body |-> GetAttr(m.a.plain_text_body, Text("")),
            entry_type |-> Text(""),
            start_time |-> FormatDatetime(GetAttr(m.a.creation_time, NoneV)),
            duration |-> IntV("0"),
            companies |-> Text(""), contacts |-> Text(""),
            creation_time |-> FormatDatetime(GetAttr(m.a.creation_time, NoneV))]

(***************************************************************************)
(* _find_folder_by_name: pre-order search, first match; 0 is None and -1   *)
(* an exception that is neither AttributeError nor TypeError, which the    *)
(* function lets through to its caller.                                    *)
(***************************************************************************)
Lower(s) ==
    CASE s = "Contacts" -> "contacts"
      [] s = "CONTACTS" -> "contacts"
      [] s = "Calendar" -> "calendar"
      [] s = "Tasks" -> "tasks"
      [] s = "Notes" -> "notes"
      [] s = "Journal" -> "journal"
      [] s = "Inbox" -> "inbox"
      [] s = "Top" -> "top"
      [] s = "A" -> "a"
      [] s = "B" -> "b"
      [] s = "A1" -> "a1"
      [] OTHER -> s

NameMatches(F, folder_name) ==
    LET n == GetAttr(F.name, Text(""))
    IN n.k = "text" /\ Truthy(n) /\ Lower(n.v) = Lower(folder_name)

RECURSIVE FindFrom(_, _, _, _)
\* the folder f itself, then its sub-folders from the i-th on
FindFrom(store, folder_name, f, i) ==
    LET F == store.folders[f]
    IN IF i = 0
       THEN IF GetRaises(F.name) THEN -1
            ELSE IF NameMatches(F, folder_name) THEN f
            ELSE FindFrom(store, folder_name, f, 1)
       ELSE IF F.subFail = i THEN -1
            ELSE IF i > Len(F.subs) THEN 0
            ELSE LET found == FindFrom(store, folder_name, F.subs[i], 0)
                 IN IF found # 0 THEN found ELSE FindFrom(store, folder_name, f, i + 1)

FindFolderByName(store, folder_name) ==
    IF store.rootRaises THEN -1 ELSE FindFrom(store, folder_name, 1, 0)

KindFolderName(kind) ==
    CASE kind = "contacts" -> "Contacts"
      [] kind = "calendar" -> "Calendar"
      [] kind = "tasks" -> "Tasks"
      [] kind = "notes" -> "Notes"
      [] kind = "journal" -> "Journal"

\* extract_contacts / _calendar / _tasks / _notes / _journal: every failure is
\* caught inside; the records appended before a listing failure are kept
KindItems(store, kind) ==
    LET f == FindFolderByName(store, KindFolderName(kind))
    IN IF f <= 0 THEN <<>>
       ELSE LET F == store.folders[f]
                n == IF F.msgFail = 0 THEN Len(F.msgs) ELSE F.msgFail - 1
            IN Flatten([i \in 1..n |->
                   IF KindRaises(kind, F.msgs[i]) THEN <<>>
                   ELSE <<KindData(kind, F.msgs[i])>>])

\* the same without the outer try / except Exception
ExtractKindUncaught(store, kind) ==
    LET f == FindFolderByName(store, KindFolderName(kind))
    IN [raised |-> f = -1 \/ (f > 0 /\ store.folders[f].msgFail # 0),
        items |-> KindItems(store, kind)]

\* raised: an exception leaves the method (never, everything is caught)
ExtractKind(store, kind) == [raised |-> FALSE, items |-> KindItems(store, kind)]

(***************************************************************************)
(* generate_statistics                                                     *)
(***************************************************************************)
TopSendersLimit == 10

RECURSIVE FirstSeen(_)
\* the keys of the senders dict, in insertion order
FirstSeen(seq) ==
    IF seq = <<>> THEN <<>>
    ELSE LET rest == FirstSeen(SubSeq(seq, 1, Len(seq) - 1))
             x == seq[Len(seq)]
         IN IF \E i \in 1..Len(rest) : rest[i] = x THEN rest ELSE Append(rest, x)

CountOf(seq, x) == Cardinality({i \in 1..Len(seq) : seq[i] = x})

RECURSIVE InsertByCount(_, _)
\* insert item into a list sorted by count descending, after its equals
InsertByCount(sorted, item) ==
    IF sorted = <<>> THEN <<item>>
    ELSE IF Head(sorted)[2] >= item[2] THEN <<Head(sorted)>> \o InsertByCount(Tail(sorted), item)
    ELSE <<item>> \o sorted

\* SortByCountDesc without the sort: the items in insertion order
SortKeepsInsertionOrder(items) == items

RECURSIVE SortByCountDesc(_)
\* sorted(items, key=lambda x: x[1], reverse=True): stable
SortByCountDesc(items) ==
    IF items = <<>> THEN <<>>
    ELSE InsertByCount(SortByCountDesc(SubSeq(items, 1, Len(items) - 1)), items[Len(items)])

TopSenders(emails) ==
    LET senderOf == [i \in 1..Len(emails) |-> emails[i].sender_email]
        keys == FirstSeen(senderOf)
        items == [i \in 1..Len(keys) |-> <<keys[i], CountOf(senderOf, keys[i])>>]
        sorted == SortByCountDesc(items)
    IN SubSeq(sorted, 1, IF Len(sorted) < TopSendersLimit THEN Len(sorted) ELSE TopSendersLimit)

\* the delivery times of the model in string order (min / max compare strings)
TimeOrder == <<"2024-01-01 10:00:00", "2024-01-02 10:00:00", "2024-01-03 10:00:00", "t">>
TimeRank(s) == IF \E i \in 1..Len(TimeOrder) : TimeOrder[i] = s
               THEN CHOOSE i \in 1..Len(TimeOrder) : TimeOrder[i] = s
               ELSE Len(TimeOrder) + 1

DeliveryDates(emails) ==
    LET d == [i \in 1..Len(emails) |-> emails[i].delivery_time]
    IN {d[i].v : i \in {j \in 1..Len(emails) : Truthy(d[j])}}

Earliest(dates) == CHOOSE x \in dates : \A y \in dates : TimeRank(x) <= TimeRank(y)
Latest(dates) == CHOOSE x \in dates : \A y \in dates : TimeRank(x) >= TimeRank(y)

BaseStatistics(results, store, now) ==
    [total_emails |-> Len(results.emails),
     total_contacts |-> Len(results.contacts),
     total_calendar_events |-> Len(results.calendar),
     total_tasks |-> Len(results.tasks),
     total_notes |-> Len(results.notes),
     total_journal_entries |-> Len(results.journal),
     total_attachments |-> Len(results.attachments),
     analysis_date |-> now,
     pst_file |-> store.path,
     pst_file_size |-> store.size]

\* GenerateStatistics without the `if self.analysis_results['emails']` guard
GenerateStatisticsUnguarded(results, store, now) ==
    BaseStatistics(results, store, now) @@ [top_senders |-> TopSenders(results.emails)]

GenerateStatistics(results, store, now) ==
    LET dates == DeliveryDates(results.emails)
    IN BaseStatistics(results, store, now)
       @@ (IF results.emails # <<>> /\ dates # {}
           THEN [email_date_range |-> [earliest |-> Earliest(dates), latest |-> Latest(dates)]]
           ELSE <<>>)
       @@ (IF results.emails # <<>>
           THEN [top_senders |-> TopSenders(results.emails)]
           ELSE <<>>)

(***************************************************************************)
(* _clean_for_json and the two writers                                     *)
(***************************************************************************)
\* bytes are decoded; every other value of the corpus is left as it is
CleanValue(x) == DecodeIfBytes(x)

CleanRecord(r, plain) ==
    [f \in DOMAIN r |-> IF f \in plain THEN r[f] ELSE CleanValue(r[f])]

CleanSeq(seq, plain) == [i \in 1..Len(seq) |-> CleanRecord(seq[i], plain)]

CleanEmail(e) ==
    [f \in DOMAIN e |->
        CASE f \in {"id", "folder"} -> e[f]
          [] f = "recipients" -> CleanSeq(e[f], {})
          [] f = "attachments" -> CleanSeq(e[f], {"email_id", "index", "saved_path"})
          [] OTHER -> CleanValue(e[f])]

CleanForJson(results) ==
    [emails |-> [i \in 1..Len(results.emails) |-> CleanEmail(results.emails[i])],
     contacts |-> CleanSeq(results.contacts, {}),
     calendar |-> CleanSeq(results.calendar, {"attendees"}),
     tasks |-> CleanSeq(results.tasks, {}),
     notes |-> CleanSeq(results.notes, {}),
     journal |-> CleanSeq(results.journal, {}),
     attachments |-> CleanSeq(results.attachments, {"email_id", "index", "saved_path"}),
     statistics |-> results.statistics]

CsvRow(email) ==
    [id |-> email.id,
     folder |-> email.folder,
     subject |-> email.subject,
     sender_name |-> email.sender_name,
     sender_email |-> email.sender_email,
     delivery_time |-> email.delivery_time,
     size |-> email.size,
     attachments_count |-> Len(email.attachments)]

CsvRows(emails) == [i \in 1..Len(emails) |-> CsvRow(emails[i])]

(***************************************************************************)
(* State.                                                                  *)
(***************************************************************************)
VARIABLES
    files,             \* analyze_directory: the .pst files found, as decoded stores
    fileIdx,           \* analyze_directory: the file of the current loop round
    processed_files,   \* analyze_directory: the files whose run returned True
    pc,                \* position in analyze_directory / perform_full_analysis
    pst_file,          \* PSTAnalyzer.pst_file: "none", "unopened", "open", "closed"
    analysis_results,  \* PSTAnalyzer.analysis_results, the corpus
    stack,             \* call stack of the recursive extract_emails
    clock,             \* the wall clock, ticking at each email id
    outputs,           \* per file: the tree document and the tabular export written
    attachment_files,  \* the attachment payloads on disk: <<path, data>>
    returned,          \* per finished file: what perform_full_analysis returned
    phases,            \* history: the states the current run went through
    emailSrc,          \* history: <<folder, index>> of the message behind each email
    idLog,             \* history: the calls of _generate_email_id
    kindIdx,           \* perform_full_analysis: which of the five other kinds is next
    ioFault,           \* history: the output whose writing raised in the current run
    all_records,       \* datagen process: the records loaded from the tabular exports
    merge_stats,       \* datagen write_stats: the data written to stats_<ts>.json
    visits,            \* history: the folders extract_emails was called on, in order
    closeCalls         \* history: the calls of pst_file.close() in the current run

vars == <<files, fileIdx, processed_files, pc, pst_file, analysis_results, stack,
          clock, outputs, attachment_files, returned, phases, emailSrc, idLog, kindIdx, ioFault,
          all_records, merge_stats, visits, closeCalls>>

dirVars == <<files, fileIdx, processed_files, returned, kindIdx>>
walkVars == <<stack, emailSrc, visits>>
diskVars == <<outputs, attachment_files>>
mergeVars == <<all_records, merge_stats>>

Store == files[fileIdx]
\* analyze_directory: one output directory per file (pst_file.stem)
OutputDir(i) == "out" \o ToString(i)

\* PSTAnalyzer.__init__
EmptyResults ==
    [emails |-> <<>>, contacts |-> <<>>, calendar |-> <<>>, tasks |-> <<>>,
     notes |-> <<>>, journal |-> <<>>, attachments |-> <<>>, statistics |-> <<>>]

\* what a write that raised part-way leaves in the file
Truncated == [truncated |-> TRUE]

NoOutputs == [json |-> <<>>, csv |-> <<>>]

RECURSIVE WriteFiles(_, _)
\* open(file_path, 'wb').write(data) for each <<path, data>>, in order
WriteFiles(disk, writes) ==
    IF writes = <<>> THEN disk
    ELSE WriteFiles({w \in disk : w[1] # Head(writes)[1]} \cup {Head(writes)}, Tail(writes))

Top == stack[Len(stack)]
TopFolder == Store.folders[Top.f]

(***************************************************************************)
(* analyze_directory and analyze_pst_file                                  *)
(***************************************************************************)
\* AnalyzePstFile with one PSTAnalyzer kept for all the files: its corpus
\* is not emptied between two runs
AnalyzePstFileSameAnalyzer ==
    /\ pc = "dir_loop"
    /\ fileIdx < Len(files)
    /\ fileIdx' = fileIdx + 1
    /\ pst_file' = "none"
    /\ stack' = <<>>
    /\ emailSrc' = <<>>
    /\ visits' = <<>>
    /\ phases' = <<"Closed">>
    /\ ioFault' = "none"
    /\ pc' = "open"
    /\ UNCHANGED <<files, processed_files, returned, kindIdx, clock, diskVars, idLog,
                   analysis_results>>
    /\ UNCHANGED mergeVars
    /\ closeCalls' = 0

\* the next file of the loop: a fresh PSTAnalyzer, then perform_full_analysis
AnalyzePstFile ==
    /\ pc = "dir_loop"
    /\ fileIdx < Len(files)
    /\ fileIdx' = fileIdx + 1
    /\ analysis_results' = EmptyResults
    /\ pst_file' = "none"
    /\ stack' = <<>>
    /\ emailSrc' = <<>>
    /\ visits' = <<>>
    /\ phases' = <<"Closed">>
    /\ ioFault' = "none"
    /\ pc' = "open"
    /\ UNCHANGED <<files, processed_files, returned, kindIdx, clock, diskVars, idLog>>
    /\ UNCHANGED mergeVars
    /\ closeCalls' = 0

DirectoryDone ==
    /\ pc = "dir_loop"
    /\ fileIdx = Len(files)
    /\ pc' = "done"
    /\ UNCHANGED <<dirVars, pst_file, analysis_results, walkVars, clock, diskVars,
                   phases, idLog, ioFault>>
    /\ UNCHANGED <<mergeVars, closeCalls>>

\* if success: processed_files.append(str(pst_file))
RecordResult ==
    /\ pc = "record"
    /\ processed_files' = IF returned[Len(returned)]
                          THEN Append(processed_files, Store.path)
                          ELSE processed_files
    /\ pc' = "dir_loop"
    /\ UNCHANGED <<files, fileIdx, returned, kindIdx, pst_file, analysis_results, walkVars, clock,
                   diskVars, phases, idLog, ioFault>>
    /\ UNCHANGED <<mergeVars, closeCalls>>

(***************************************************************************)
(* open_pst_file, as called by perform_full_analysis                       *)
(***************************************************************************)
OpenOk ==
    /\ pc = "open"
    /\ Store.exists /\ ~Store.openRaises
    /\ pst_file' = "open"
    /\ phases' = Append(phases, "Open")
    /\ pc' = "extract_emails"
    /\ UNCHANGED <<dirVars, analysis_results, walkVars, clock, diskVars, idLog, ioFault>>
    /\ UNCHANGED <<mergeVars, closeCalls>>

\* OpenFails with the result of open_pst_file ignored by perform_full_analysis
OpenFailsIgnored ==
    /\ pc = "open"
    /\ ~Store.exists \/ Store.openRaises
    /\ pst_file' = IF Store.exists THEN "unopened" ELSE "none"
    /\ pc' = "extract_emails"
    /\ UNCHANGED <<dirVars, analysis_results, walkVars, clock, diskVars, phases, idLog,
                   ioFault>>
    /\ UNCHANGED <<mergeVars, closeCalls>>

\* the file is missing, or pypff raises on open: return False
OpenFails ==
    /\ pc = "open"
    /\ ~Store.exists \/ Store.openRaises
    /\ pst_file' = IF Store.exists THEN "unopened" ELSE "none"
    /\ returned' = Append(returned, FALSE)
    /\ pc' = "record"
    /\ UNCHANGED <<files, fileIdx, processed_files, kindIdx, analysis_results, walkVars, clock,
                   diskVars, phases, idLog, ioFault>>
    /\ UNCHANGED <<mergeVars, closeCalls>>

(***************************************************************************)
(* extract_emails: the recursion, one frame per folder                     *)
(***************************************************************************)
\* Frame with the sub-folder loop starting at the second sub-folder
FrameAfterFirstSubFolder(f, path) ==
    [f |-> f, path |-> path, phase |-> "subs", i |-> 2, emails |-> <<>>, src |-> <<>>]

\* a call of extract_emails on folder f: emails = [], the sub-folder loop first
Frame(f, path) == [f |-> f, path |-> path, phase |-> "subs", i |-> 1,
                   emails |-> <<>>, src |-> <<>>]

\* ReturnEmails with the sub-folder's list put in front of the caller's list
ReturnEmailsInFront(emails, src) ==
    IF Len(stack) = 1
    THEN /\ stack' = <<>>
         /\ emailSrc' = src
         /\ analysis_results' = [analysis_results EXCEPT !.emails = emails]
         /\ pc' = "extract_other"
    ELSE /\ stack' = [SubSeq(stack, 1, Len(stack) - 1) EXCEPT
                        ![Len(stack) - 1].emails = emails \o @,
                        ![Len(stack) - 1].src = src \o @,
                        ![Len(stack) - 1].i = @ + 1]
         /\ UNCHANGED <<emailSrc, analysis_results, pc>>

\* the folder of the top frame returns its list: extended into the caller's
\* list, or assigned to analysis_results['emails'] at the root
ReturnEmails(emails, src) ==
    IF Len(stack) = 1
    THEN /\ stack' = <<>>
         /\ emailSrc' = src
         /\ analysis_results' = [analysis_results EXCEPT !.emails = emails]
         /\ pc' = "extract_other"
    ELSE /\ stack' = [SubSeq(stack, 1, Len(stack) - 1) EXCEPT
                        ![Len(stack) - 1].emails = @ \o emails,
                        ![Len(stack) - 1].src = @ \o src,
                        ![Len(stack) - 1].i = @ + 1]
         /\ UNCHANGED <<emailSrc, analysis_results, pc>>

\* folder = self.pst_file.root_folder
WalkStart ==
    /\ pc = "extract_emails"
    /\ phases' = Append(phases, "Extracting")
    /\ IF Store.rootRaises
       THEN /\ analysis_results' = [analysis_results EXCEPT !.emails = <<>>]
            /\ pc' = "extract_other"
            /\ UNCHANGED <<stack, visits>>
       ELSE /\ stack' = <<Frame(1, "")>>
            /\ visits' = <<1>>
            /\ pc' = "walk"
            /\ UNCHANGED analysis_results
    /\ UNCHANGED <<dirVars, pst_file, emailSrc, clock, diskVars, idLog, ioFault>>
    /\ UNCHANGED <<mergeVars, closeCalls>>

\* the sub-folder listing, or reading the name of the next sub-folder, raises
SubFolderListingRaises ==
    \/ TopFolder.subFail = Top.i
    \/ /\ Top.i <= Len(TopFolder.subs)
       /\ Store.folders[TopFolder.subs[Top.i]].name.st # "ok"

\* for sub_folder in folder.sub_folders: recurse with the extended path
WalkDescend ==
    /\ pc = "walk" /\ Top.phase = "subs"
    /\ ~SubFolderListingRaises
    /\ Top.i <= Len(TopFolder.subs)
    /\ LET sub == TopFolder.subs[Top.i]
           name == Str(Store.folders[sub].name.val)
           folder_path == IF Top.path # "" THEN Top.path \o "/" \o name ELSE name
       IN /\ stack' = Append(stack, Frame(sub, folder_path))
          /\ visits' = Append(visits, sub)
    /\ UNCHANGED <<dirVars, pst_file, analysis_results, emailSrc, clock, diskVars,
                   phases, pc, idLog, ioFault>>
    /\ UNCHANGED <<mergeVars, closeCalls>>

\* the sub-folder loop is over: on to the folder's own messages
WalkSubFoldersDone ==
    /\ pc = "walk" /\ Top.phase = "subs"
    /\ ~SubFolderListingRaises
    /\ Top.i > Len(TopFolder.subs)
    /\ stack' = [stack EXCEPT ![Len(stack)].phase = "msgs", ![Len(stack)].i = 1]
    /\ UNCHANGED <<dirVars, pst_file, analysis_results, emailSrc, clock, diskVars,
                   phases, pc, idLog, ioFault>>
    /\ UNCHANGED <<mergeVars, closeCalls>>
    /\ UNCHANGED visits

\* FolderReturnsOnError with the list dropped when the folder fails
FolderReturnsNothingOnError(frame) == [emails |-> <<>>, src |-> <<>>]

\* except Exception around the whole folder: what was collected is returned
FolderReturnsOnError(frame) == [emails |-> frame.emails, src |-> frame.src]

WalkFolderFails ==
    /\ pc = "walk"
    /\ \/ Top.phase = "subs" /\ SubFolderListingRaises
       \/ Top.phase = "msgs" /\ TopFolder.msgFail = Top.i
       \/ Top.phase = "raised"
    /\ ReturnEmails(FolderReturnsOnError(Top).emails, FolderReturnsOnError(Top).src)
    /\ UNCHANGED <<dirVars, pst_file, clock, diskVars, phases, idLog, ioFault>>
    /\ UNCHANGED <<mergeVars, closeCalls>>
    /\ UNCHANGED visits

\* AfterMessage without the two try / except around one message: the failure
\* of a message reaches the except of the folder
AfterMessageUnisolated(frame, m, email_data) ==
    IF Abandoned(m)
    THEN [frame EXCEPT !.phase = "raised"]
    ELSE [frame EXCEPT
            !.emails = @ \o email_data,
            !.src = @ \o << <<frame.f, frame.i>> >>,
            !.i = @ + 1]

\* the frame after one message: its record, unless it is None, is appended
\* and the loop goes on, whatever happened inside _extract_single_email
AfterMessage(frame, m, email_data) ==
    [frame EXCEPT
        !.emails = @ \o email_data,
        !.src = @ \o (IF email_data = <<>> THEN <<>> ELSE << <<frame.f, frame.i>> >>),
        !.i = @ + 1]

\* for message in folder.sub_messages: _extract_single_email, append if not None
WalkMessage ==
    /\ pc = "walk" /\ Top.phase = "msgs"
    /\ TopFolder.msgFail # Top.i
    /\ Top.i <= Len(TopFolder.msgs)
    /\ LET m == TopFolder.msgs[Top.i]
           email_id == GenerateEmailId(m, clock)
           out == OutputDir(fileIdx)
           email_data == ExtractSingleEmail(m, Top.path, out, email_id)
       IN /\ clock' = clock + 1
          /\ idLog' = Append(idLog, [file |-> fileIdx, now |-> clock,
                                     subject |-> m.a.subject,
                                     sender |-> m.a.sender_email_address,
                                     ctime |-> m.a.creation_time,
                                     id |-> email_id])
          /\ analysis_results' =
                [analysis_results EXCEPT
                    !.attachments = @ \o CorpusAttachmentsOf(m, out, email_id)]
          /\ attachment_files' = WriteFiles(attachment_files, FilesOf(m, out, email_id))
          /\ stack' = [stack EXCEPT ![Len(stack)] = AfterMessage(Top, m, email_data)]
    /\ UNCHANGED <<dirVars, pst_file, emailSrc, outputs, phases, pc, ioFault>>
    /\ UNCHANGED <<mergeVars, closeCalls>>
    /\ UNCHANGED visits

\* the message loop is over: return emails
WalkReturn ==
    /\ pc = "walk" /\ Top.phase = "msgs"
    /\ TopFolder.msgFail # Top.i
    /\ Top.i > Len(TopFolder.msgs)
    /\ ReturnEmails(Top.emails, Top.src)
    /\ UNCHANGED <<dirVars, pst_file, clock, diskVars, phases, idLog, ioFault>>
    /\ UNCHANGED <<mergeVars, closeCalls>>
    /\ UNCHANGED visits

(***************************************************************************)
(* perform_full_analysis after the e-mails                                 *)
(***************************************************************************)
KindOrder == <<"contacts", "calendar", "tasks", "notes", "journal">>

\* self.analysis_results[kind] = self.extract_<kind>(), the five in turn
ExtractOther ==
    /\ pc = "extract_other"
    /\ LET kind == KindOrder[kindIdx]
           got == ExtractKind(Store, kind)
       IN IF got.raised
          THEN /\ pc' = "except"
               /\ UNCHANGED <<analysis_results, kindIdx>>
          ELSE /\ analysis_results' = [analysis_results EXCEPT ![kind] = got.items]
               /\ kindIdx' = IF kindIdx = Len(KindOrder) THEN 1 ELSE kindIdx + 1
               /\ pc' = IF kindIdx = Len(KindOrder) THEN "statistics" ELSE "extract_other"
    /\ UNCHANGED <<files, fileIdx, processed_files, returned, pst_file, walkVars, clock,
                   diskVars, phases, idLog, ioFault>>
    /\ UNCHANGED <<mergeVars, closeCalls>>

Statistics ==
    /\ pc = "statistics"
    /\ analysis_results' =
          [analysis_results EXCEPT !.statistics = GenerateStatistics(analysis_results, Store, clock)]
    /\ phases' = Append(phases, "Aggregated")
    /\ pc' = "save_json"
    /\ UNCHANGED <<dirVars, pst_file, walkVars, clock, diskVars, idLog, ioFault>>
    /\ UNCHANGED <<mergeVars, closeCalls>>

\* save_results: the tree document
SaveJson ==
    /\ pc = "save_json"
    /\ outputs' = [outputs EXCEPT ![fileIdx].json = <<CleanForJson(analysis_results)>>]
    /\ pc' = "save_csv"
    /\ UNCHANGED <<dirVars, pst_file, analysis_results, walkVars, clock, attachment_files,
                   phases, idLog, ioFault>>
    /\ UNCHANGED <<mergeVars, closeCalls>>

\* open() or json.dump raises: nothing, or a truncated document, is left
SaveJsonRaises ==
    /\ pc = "save_json"
    /\ \E left \in {<<>>, <<Truncated>>} :
          outputs' = [outputs EXCEPT ![fileIdx].json = left]
    /\ ioFault' = "json"
    /\ pc' = "except"
    /\ UNCHANGED <<dirVars, pst_file, analysis_results, walkVars, clock, attachment_files,
                   phases, idLog>>
    /\ UNCHANGED <<mergeVars, closeCalls>>

\* _save_csv_results: written only when there are e-mails
CsvWritten(results) == results.emails # <<>>

SaveCsv ==
    /\ pc = "save_csv"
    /\ outputs' = IF CsvWritten(analysis_results)
                  THEN [outputs EXCEPT ![fileIdx].csv = <<CsvRows(analysis_results.emails)>>]
                  ELSE outputs
    /\ phases' = Append(phases, "Serialized")
    /\ pc' = "close"
    /\ UNCHANGED <<dirVars, pst_file, analysis_results, walkVars, clock, attachment_files,
                   idLog, ioFault>>
    /\ UNCHANGED <<mergeVars, closeCalls>>

SaveCsvRaises ==
    /\ pc = "save_csv"
    /\ CsvWritten(analysis_results)
    /\ \E left \in {<<>>, <<Truncated>>} :
          outputs' = [outputs EXCEPT ![fileIdx].csv = left]
    /\ ioFault' = "csv"
    /\ pc' = "except"
    /\ UNCHANGED <<dirVars, pst_file, analysis_results, walkVars, clock, attachment_files,
                   phases, idLog>>
    /\ UNCHANGED <<mergeVars, closeCalls>>

\* close_pst_file, then return True
CloseAndReturn ==
    /\ pc = "close"
    /\ pst_file' = "closed"
    /\ phases' = Append(phases, "Closed")
    /\ returned' = Append(returned, TRUE)
    /\ pc' = "record"
    /\ UNCHANGED <<files, fileIdx, processed_files, kindIdx, analysis_results, walkVars, clock,
                   diskVars, idLog, ioFault>>
    /\ UNCHANGED mergeVars
    /\ closeCalls' = closeCalls + 1

\* pst_file.close() raises inside close_pst_file, called after save_results:
\* the store object is still there, and the except clause is entered
CloseRaises ==
    /\ pc = "close"
    /\ ioFault' = "close"
    /\ closeCalls' = closeCalls + 1
    /\ pc' = "except"
    /\ UNCHANGED <<dirVars, pst_file, analysis_results, walkVars, clock, diskVars,
                   phases, idLog>>
    /\ UNCHANGED mergeVars

\* except Exception: the store is there and pst_file.close() raises inside
\* the handler: the exception leaves perform_full_analysis, analyze_pst_file
\* and analyze_directory
ExceptHandlerCloseRaises ==
    /\ pc = "except"
    /\ pst_file # "none"
    /\ closeCalls' = closeCalls + 1
    /\ pc' = "crashed"
    /\ UNCHANGED <<dirVars, pst_file, analysis_results, walkVars, clock, diskVars,
                   phases, idLog, ioFault>>
    /\ UNCHANGED mergeVars

\* except Exception: close the store if there is one, return False
ExceptHandler ==
    /\ pc = "except"
    /\ pst_file' = IF pst_file # "none" THEN "closed" ELSE pst_file
    /\ phases' = IF pst_file # "none" THEN Append(phases, "Closed") ELSE phases
    /\ returned' = Append(returned, FALSE)
    /\ pc' = "record"
    /\ UNCHANGED <<files, fileIdx, processed_files, kindIdx, analysis_results, walkVars, clock,
                   diskVars, idLog, ioFault>>
    /\ UNCHANGED mergeVars
    /\ closeCalls' = IF pst_file # "none" THEN closeCalls + 1 ELSE closeCalls

(***************************************************************************)
(* The stores the model runs on.                                           *)
(***************************************************************************)
MaxFolders == 4      \* folders of a tree store
MaxMessages == 3     \* messages of a tree store, all folders together
MaxAttachments == 2  \* attachments of one message

MsgAttrs ==
    {"subject", "sender_name", "sender_email_address", "plain_text_body", "html_body",
     "recipients", "delivery_time", "creation_time", "modification_time", "size",
     "message_class", "priority", "importance", "attachments", "categories", "is_read",
     "properties"}

\* every attribute there and readable
PlainAttrs ==
    [subject |-> Ok(Text("s1")),
     sender_name |-> Ok(Text("n")),
     sender_email_address |-> Ok(Text("u@x")),
     plain_text_body |-> Ok(Text("p")),
     html_body |-> Ok(Text("h")),
     recipients |-> Ok(NoneV),
     delivery_time |-> Ok(DateV("2024-01-01 10:00:00")),
     creation_time |-> Ok(DateV("2024-01-01 10:00:00")),
     modification_time |-> Ok(DateV("2024-01-02 10:00:00")),
     size |-> Ok(IntV("5")),
     message_class |-> Ok(Text("IPM.Note")),
     priority |-> Ok(IntV("1")),
     importance |-> Ok(IntV("1")),
     attachments |-> Ok(NoneV),
     categories |-> Ok(Text("")),
     is_read |-> Ok(BoolV("True")),
     properties |-> Ok(NoneV)]

Msg(subject, sender) ==
    [a |-> [PlainAttrs EXCEPT !.subject = Ok(Text(subject)),
                              !.sender_email_address = Ok(Text(sender))],
     rcpts |-> <<>>,
     atts |-> <<>>]

Recipient(name) ==
    [name |-> Ok(name), email_address |-> Ok(Text("r@x")), type |-> Ok(IntV("1"))]

Attachment(chars, data) ==
    [name |-> Ok([k |-> "chars", v |-> chars]),
     size |-> Ok(IntV("2")),
     attachment_type |-> Ok(Text("data")),
     data |-> Ok(Bytes(data)),
     io |-> "ok"]

\* attachments that are read and saved
PlainAttachments ==
    {Attachment(<<"a", ".", "t">>, "d1"),
     Attachment(<<"a", ":", ".", "t">>, "d2")}

AttachmentVariants ==
    LET good == Attachment(<<"a", ".", "t">>, "d1")
    IN PlainAttachments
       \cup {Attachment(<<"*", "/">>, "d3"),
             Attachment(<<"b", " ">>, ""),
             [good EXCEPT !.name = Absent],
             [good EXCEPT !.size = Raises],
             [good EXCEPT !.data = Absent],
             [good EXCEPT !.io = "write"],
             [good EXCEPT !.io = "mkdir"]}

\* message.attachments: at most one attachment of a list is not a plain one
AttachmentLists ==
    UNION {{l \in [1..n -> AttachmentVariants] :
               Cardinality({i \in 1..n : l[i] \notin PlainAttachments}) <= 1} :
           n \in 0..MaxAttachments}

\* one message with one thing about it out of the ordinary
MessageVariants ==
    LET plain == Msg("s1", "u@x")
    IN {plain}
       \cup {[plain EXCEPT !.a[at] = acc] : at \in MsgAttrs, acc \in {Absent, Raises}}
       \cup {[plain EXCEPT !.a = [at \in MsgAttrs |-> Raises]]}
       \cup {[plain EXCEPT !.a[at] = Ok(Bytes("y"))] :
                at \in {"subject", "sender_name", "sender_email_address", "plain_text_body"}}
       \cup {[plain EXCEPT !.a[at] = Ok(NoneV)] :
                at \in {"subject", "sender_email_address", "delivery_time", "plain_text_body"}}
       \cup {[plain EXCEPT !.a.plain_text_body = Ok(IntV("7"))]}
       \cup {[plain EXCEPT !.rcpts = r] :
                r \in {<<Recipient(Text("a"))>>,
                       <<Recipient(Bytes("b")), [Recipient(Text("c")) EXCEPT !.type = Raises]>>}}
       \cup {[plain EXCEPT !.atts = <<Attachment(<<"a", ".", "t">>, "d1")>>]}

Folder(name, subs, msgs) ==
    [name |-> Ok(Text(name)), subs |-> subs, subFail |-> 0, msgs |-> msgs, msgFail |-> 0]

MkStore(folders) ==
    [path |-> "", size |-> "1024", exists |-> TRUE, openRaises |-> FALSE,
     rootRaises |-> FALSE, folders |-> folders]

\* ---- tree stores: every shape of at most MaxFolders folders
FolderNames == <<"Top", "A", "B", "A1", "Contacts", "Inbox">>
KindNames == <<"Top", "Contacts", "Inbox", "CONTACTS", "Calendar", "Tasks">>

RECURSIVE SortedSeq(_)
SortedSeq(S) == IF S = {} THEN <<>>
                ELSE LET x == CHOOSE y \in S : \A z \in S : y <= z
                     IN <<x>> \o SortedSeq(S \ {x})

Shapes(n) == {p \in [1..n -> 0..(n - 1)] : \A i \in 1..n : p[i] < i /\ (i > 1 => p[i] >= 1)}

RECURSIVE Sum(_, _)
Sum(c, n) == IF n = 0 THEN 0 ELSE c[n] + Sum(c, n - 1)

MessageCounts(n) == {c \in [1..n -> 0..1] : Sum(c, n) <= MaxMessages}

TreeMessage(f, j) == Msg("m" \o ToString(f) \o ToString(j), IF j = 1 THEN "u@x" ELSE "v@x")

TreeStore(n, parent, count, names) ==
    MkStore([f \in 1..n |->
                Folder(names[f],
                       SortedSeq({g \in 1..n : parent[g] = f}),
                       [j \in 1..count[f] |-> TreeMessage(f, j)])])

\* one access failure somewhere in the store
Faults(store) ==
    LET n == Len(store.folders)
    IN UNION {{[store EXCEPT !.folders[f].subFail = k] :
                  k \in 1..(Len(store.folders[f].subs) + 1)} : f \in 1..n}
       \cup UNION {{[store EXCEPT !.folders[f].msgFail = k] :
                  k \in 1..(Len(store.folders[f].msgs) + 1)} : f \in 1..n}
       \cup {[store EXCEPT !.folders[f].name = acc] : f \in 1..n, acc \in {Absent, Raises}}
       \cup {[store EXCEPT !.rootRaises = TRUE]}

Trees(names, sizes) ==
    UNION {{TreeStore(n, p, c, names) : p \in Shapes(n), c \in MessageCounts(n)} : n \in sizes}

\* the trees with one message in every folder, or two
FullTrees(names, sizes, k) ==
    UNION {{TreeStore(n, p, [f \in 1..n |-> k], names) : p \in Shapes(n)} : n \in sizes}

TreeStores ==
    Trees(FolderNames, 1..MaxFolders)
    \cup UNION {Faults(s) : s \in FullTrees(FolderNames, 1..MaxFolders, 1)}
    \cup UNION {Faults(s) : s \in FullTrees(FolderNames, 1..2, 2)}
    \cup Trees(KindNames, 2..3)
    \cup UNION {Faults(s) : s \in FullTrees(KindNames, 2..3, 1)}

\* ---- item stores: one folder, the message in the middle is a variant
FlatStore(msgs) == MkStore(<<Folder("Top", <<>>, msgs)>>)

ItemStores ==
    {FlatStore(<<m>>) : m \in MessageVariants}
    \cup {FlatStore(<<Msg("s1", "u@x"), m, Msg(s, "v@x")>>) :
             m \in MessageVariants, s \in {"s1", "s3"}}

\* ---- attachment stores: two messages with attachments, alike or not
AttachmentStores ==
    {FlatStore(<<[Msg("s1", "u@x") EXCEPT !.atts = l1],
                 [Msg(s, "u@x") EXCEPT !.atts = l2, !.a.categories = c]>>) :
        l1 \in AttachmentLists,
        l2 \in {<<>>} \cup {<<a>> : a \in PlainAttachments},
        s \in {"s1", "s2"},
        c \in {Ok(Text("")), Raises}}

\* ---- kind stores: a folder of one of the five other kinds
KindStores ==
    {MkStore(<<Folder("Top", <<2, 3>>, <<>>),
               Folder("Inbox", <<>>, <<Msg("s1", "u@x")>>),
               Folder(name, <<>>, <<m, Msg("s2", "v@x")>>)>>) :
        name \in {"Contacts", "calendar", "Tasks", "Notes", "Journal"},
        m \in MessageVariants}

\* ---- stores that do not open, and the empty store
MissingStore == [MkStore(<<Folder("Top", <<>>, <<>>)>>) EXCEPT !.exists = FALSE]
CorruptStore == [MkStore(<<Folder("Top", <<>>, <<Msg("s1", "u@x")>>)>>) EXCEPT !.openRaises = TRUE]
EmptyStore == MkStore(<<Folder("Top", <<>>, <<>>)>>)

SmallStores ==
    {MissingStore, CorruptStore, EmptyStore,
     FlatStore(<<Msg("s1", "u@x")>>),
     FlatStore(<<[Msg("s1", "u@x") EXCEPT !.atts = <<Attachment(<<"a", ".", "t">>, "d1")>>]>>),
     FlatStore(<<Msg("s2", "v@x"), [Msg("s1", "u@x") EXCEPT !.a.subject = Raises]>>)}

\* ---- stores with a folder whose name is the empty string
UnnamedFolderStores ==
    {MkStore(<<Folder("Top", <<2>>, <<>>),
               Folder("", <<3>>, <<Msg("s2", "v@x")>>),
               Folder("X", <<>>, <<Msg("s1", "u@x")>>)>>),
     MkStore(<<Folder("Top", <<2, 3>>, <<Msg("s3", "u@x")>>),
               Folder("A", <<>>, <<Msg("s2", "v@x")>>),
               Folder("", <<>>, <<Msg("s1", "u@x")>>)>>)}

AllStores ==
    TreeStores \cup ItemStores \cup AttachmentStores \cup KindStores \cup SmallStores
        \cup UnnamedFolderStores

\* directory.glob("*.pst"): the files, each with its own path
WithPaths(stores) ==
    [i \in 1..Len(stores) |-> [stores[i] EXCEPT !.path = "f" \o ToString(i) \o ".pst"]]

Directories ==
    {<<>>}
    \cup {WithPaths(<<s>>) : s \in AllStores}
    \cup {WithPaths(<<s1, s2>>) : s1 \in SmallStores, s2 \in SmallStores}

(***************************************************************************)
(* The specification.                                                      *)
(***************************************************************************)
Init ==
    /\ files \in Directories
    /\ fileIdx = 0
    /\ processed_files = <<>>
    /\ pc = "dir_loop"
    /\ pst_file = "none"
    /\ analysis_results = EmptyResults
    /\ stack = <<>>
    /\ clock = 0
    /\ outputs = [i \in 1..Len(files) |-> NoOutputs]
    /\ attachment_files = {}
    /\ returned = <<>>
    /\ phases = <<>>
    /\ emailSrc = <<>>
    /\ idLog = <<>>
    /\ ioFault = "none"
    /\ kindIdx = 1
    /\ all_records = <<>>
    /\ merge_stats = <<>>
    /\ closeCalls = 0
    /\ visits = <<>>

Next ==
    \/ AnalyzePstFile
    \/ DirectoryDone
    \/ RecordResult
    \/ OpenOk
    \/ OpenFails
    \/ WalkStart
    \/ WalkDescend
    \/ WalkSubFoldersDone
    \/ WalkFolderFails
    \/ WalkMessage
    \/ WalkReturn
    \/ ExtractOther
    \/ Statistics
    \/ SaveJson
    \/ SaveJsonRaises
    \/ SaveCsv
    \/ SaveCsvRaises
    \/ CloseAndReturn
    \/ CloseRaises
    \/ ExceptHandler
    \/ ExceptHandlerCloseRaises

Spec == Init /\ [][Next]_vars

(***************************************************************************)
(* Vocabulary of the properties.                                           *)
(***************************************************************************)
Folders == 1..Len(Store.folders)
MsgAt(f, i) == Store.folders[f].msgs[i]
MsgIdx(f) == 1..Len(Store.folders[f].msgs)

RunEnded == pc = "record"
Opened == \E j \in 1..Len(phases) : phases[j] = "Open"
Reached(phase) == \E j \in 1..Len(phases) : phases[j] = phase
LastReturned == returned[Len(returned)]
\* extract_emails has returned into analysis_results['emails']
WalkDone ==
    /\ Opened
    /\ pc \in {"extract_other", "statistics", "save_json", "save_csv", "close", "except",
               "record", "crashed"}

IsChild(f, g) == \E k \in 1..Len(Store.folders[f].subs) : Store.folders[f].subs[k] = g
RECURSIVE Chain(_)
\* the folders from the root down to g
Chain(g) == IF \E f \in Folders : IsChild(f, g)
            THEN Append(Chain(CHOOSE f \in Folders : IsChild(f, g)), g)
            ELSE <<g>>
\* f is a proper ancestor of g
IsAncestor(f, g) == f # g /\ \E k \in 1..Len(Chain(g)) : Chain(g)[k] = f
InSubtree(f, g) == g = f \/ IsAncestor(f, g)
PosIn(seq, x) == CHOOSE k \in 1..Len(seq) : seq[k] = x
\* f and g lie in different sub-folders of a common folder, f's listed first
BranchBefore(f, g) ==
    LET cf == Chain(f)
        cg == Chain(g)
        k == CHOOSE j \in 1..Len(cf) : cf[j] # cg[j] /\ \A h \in 1..(j - 1) : cf[h] = cg[h]
        subs == Store.folders[cf[k - 1]].subs
    IN PosIn(subs, cf[k]) < PosIn(subs, cg[k])
Unrelated(f, g) == f # g /\ ~IsAncestor(f, g) /\ ~IsAncestor(g, f)

Occurrences(seq, x) == Cardinality({p \in 1..Len(seq) : seq[p] = x})

\* the records of analysis_results['emails'] are those of the messages emailSrc names
EmailsFollowSrc ==
    /\ Len(analysis_results.emails) = Len(emailSrc)
    /\ \A p \in 1..Len(emailSrc) :
          LET m == MsgAt(emailSrc[p][1], emailSrc[p][2])
              e == analysis_results.emails[p]
          IN /\ e.subject = DecodeIfBytes(GetAttr(m.a.subject, Text("")))
             /\ e.sender_email = DecodeIfBytes(GetAttr(m.a.sender_email_address, Text("")))
             /\ e.size = GetAttr(m.a.size, IntV("0"))

\* no listing of the store raises
NoListingFault ==
    /\ ~Store.rootRaises
    /\ \A f \in Folders :
          /\ Store.folders[f].subFail = 0
          /\ Store.folders[f].msgFail = 0
          /\ f # 1 => Store.folders[f].name.st = "ok"

(***************************************************************************)
(* C1                                                                      *)
(***************************************************************************)
\* C1 (as stated): in the list extract_emails returns, a folder's own items
\* come before the items of its sub-folders, and the sub-folder subtrees
\* come in the order the store lists them.
C1_OwnItemsBeforeSubFolders ==
    WalkDone =>
        \A p, q \in 1..Len(emailSrc) :
            p < q =>
                LET f == emailSrc[p][1]
                    g == emailSrc[q][1]
                IN /\ f = g => emailSrc[p][2] < emailSrc[q][2]
                   /\ ~IsAncestor(g, f)
                   /\ Unrelated(f, g) => BranchBefore(f, g)

\* C1 (amended): in the list extract_emails returns, the items of a folder's
\* sub-folders come before the folder's own items (the sub-folders are walked
\* first), the sub-folder subtrees come in the order the store lists them and
\* the items of one folder in the order of its messages.
C1_SubFoldersBeforeOwnItems ==
    WalkDone =>
        /\ EmailsFollowSrc
        /\ \A p, q \in 1..Len(emailSrc) :
              p < q =>
                  LET f == emailSrc[p][1]
                      g == emailSrc[q][1]
                  IN /\ f = g => emailSrc[p][2] < emailSrc[q][2]
                     /\ ~IsAncestor(f, g)
                     /\ Unrelated(f, g) => BranchBefore(f, g)

\* the tree root -> [A, B], A -> [A1], walked: A1's item, A's, then B's
C1_Witness ==
    /\ WalkDone
    /\ Len(Store.folders) = 4
    /\ Store.folders[1].subs = <<2, 3>> /\ Store.folders[2].subs = <<4>>
    /\ emailSrc = << <<4, 1>>, <<2, 1>>, <<3, 1>> >>
    /\ analysis_results.emails[1].folder = "A/A1"

(***************************************************************************)
(* C2                                                                      *)
(***************************************************************************)
\* C2: when normalizing a message fails, only that message is missing from
\* the result: with no listing failure in the store, every message that can
\* be normalized has exactly one record, every other has none; and the run,
\* its writes succeeding, still reaches Serialized and returns True.
C2_FailedMessageSkippedAlone ==
    /\ (WalkDone /\ NoListingFault) =>
          /\ EmailsFollowSrc
          /\ \A f \in Folders : \A i \in MsgIdx(f) :
                Occurrences(emailSrc, <<f, i>>) = IF Abandoned(MsgAt(f, i)) THEN 0 ELSE 1
    /\ (RunEnded /\ Opened /\ ioFault = "none") => (Reached("Serialized") /\ LastReturned)

\* three messages, every accessor of the second raises: records of 1 and 3
C2_Witness ==
    /\ RunEnded /\ Reached("Serialized") /\ LastReturned
    /\ Len(Store.folders[1].msgs) = 3
    /\ \A at \in MsgAttrs : GetRaises(MsgAt(1, 2).a[at])
    /\ emailSrc = << <<1, 1>>, <<1, 3>> >>
    /\ Len(analysis_results.emails) = 2

(***************************************************************************)
(* C3                                                                      *)
(***************************************************************************)
\* listing the sub-folders of f raises (reading a sub-folder's name included)
SubFoldersFail(f) ==
    LET F == Store.folders[f]
    IN \/ F.subFail \in 1..(Len(F.subs) + 1)
       \/ \E k \in 1..Len(F.subs) : Store.folders[F.subs[k]].name.st # "ok"
\* listing the messages of f raises
MessagesFail(f) ==
    LET F == Store.folders[f]
    IN ~SubFoldersFail(f) /\ F.msgFail \in 1..(Len(F.msgs) + 1)
\* f is the one folder of the store a listing of which raises
OnlyFailure(f) ==
    /\ ~Store.rootRaises
    /\ SubFoldersFail(f) \/ MessagesFail(f)
    /\ \A g \in Folders \ {f} : ~SubFoldersFail(g) /\ ~MessagesFail(g)
OwnItems(f) == {i \in MsgIdx(f) : \E p \in 1..Len(emailSrc) : emailSrc[p] = <<f, i>>}
OutsideKept(f) ==
    \A g \in Folders : ~InSubtree(f, g) =>
        \A i \in MsgIdx(g) : ~Abandoned(MsgAt(g, i)) => i \in OwnItems(g)

\* C3 (as stated): when a listing of folder F raises, the walk goes on, F
\* contributes no item of its own and every item of the folders outside F's
\* subtree is in the result.
C3_FailedFolderContributesNothing ==
    WalkDone => \A f \in Folders : OnlyFailure(f) => (OwnItems(f) = {} /\ OutsideKept(f))

\* C3 (amended): when a listing of folder F raises, the walk goes on and every
\* item of the folders outside F's subtree is in the result; F contributes
\* none of its own items when its sub-folder listing raises, and exactly the
\* items of the messages listed before the failure when its message listing
\* raises.
C3_FailedFolderKeepsWhatItRead ==
    WalkDone =>
        \A f \in Folders : OnlyFailure(f) =>
            /\ OutsideKept(f)
            /\ SubFoldersFail(f) => OwnItems(f) = {}
            /\ MessagesFail(f) =>
                  OwnItems(f) = {i \in MsgIdx(f) :
                                    i < Store.folders[f].msgFail /\ ~Abandoned(MsgAt(f, i))}

\* the message listing of a sub-folder raises at its second message: its
\* first item and the items of its parent are in the result
C3_Witness ==
    /\ WalkDone
    /\ \E f \in Folders \ {1} :
          /\ OnlyFailure(f) /\ Store.folders[f].msgFail = 2
          /\ OwnItems(f) = {1}
          /\ OwnItems(1) # {}

(***************************************************************************)
(* C4                                                                      *)
(***************************************************************************)
\* the attributes _extract_single_email reads
EmailAttrs == MsgAttrs \ {"properties"}
FaultyAttrs(m) == {at \in EmailAttrs : m.a[at].st # "ok"}
RecordsOf(f, i) == {p \in 1..Len(emailSrc) : emailSrc[p] = <<f, i>>}

\* C4: a message of which exactly one attribute cannot be read (absent, or
\* its accessor raises) still gets its record, with that field at its
\* default and every other field as extracted; a message gets no record only
\* when its identity cannot be produced.
C4_OneUnreadableAttributeDefaults ==
    (WalkDone /\ NoListingFault) =>
        \A f \in Folders : \A i \in MsgIdx(f) :
            LET m == MsgAt(f, i)
            IN /\ Cardinality(FaultyAttrs(m)) = 1 =>
                    \E p \in RecordsOf(f, i) :
                        LET at == CHOOSE x \in FaultyAttrs(m) : TRUE
                            e == analysis_results.emails[p]
                        IN e = EmailData([m EXCEPT !.a[at] = Absent], e.folder,
                                         OutputDir(fileIdx), e.id)
               /\ RecordsOf(f, i) = {} => IdRaises(m)

(***************************************************************************)
(* C5                                                                      *)
(***************************************************************************)
CanonicalPhases == <<"Closed", "Open", "Extracting", "Aggregated", "Serialized", "Closed">>
IsPrefix(a, b) == Len(a) <= Len(b) /\ \A j \in 1..Len(a) : a[j] = b[j]
\* one of the five other extractions meets an exception
KindExtractionFails ==
    \E k \in 1..Len(KindOrder) : FindFolderByName(Store, KindFolderName(KindOrder[k])) = -1

C6_FailedOpenLeavesNothing ==
    (pc \in {"record", "dir_loop", "done"} /\ fileIdx >= 1 /\ ~Opened) =>
        /\ ~LastReturned
        /\ phases = <<"Closed">>
        /\ outputs[fileIdx] = NoOutputs
        /\ analysis_results = EmptyResults
        /\ \A j \in 1..Len(idLog) : idLog[j].file # fileIdx
        /\ pst_file # "open"

\* the decoder raised on opening a file that is there
C6_Witness ==
    /\ RunEnded /\ ~LastReturned
    /\ Store.exists /\ Store.openRaises
    /\ Store.folders[1].msgs # <<>>

(***************************************************************************)
(* C7                                                                      *)
(***************************************************************************)
JsonWritten == outputs[fileIdx].json = <<CleanForJson(analysis_results)>>
CsvFileWritten == outputs[fileIdx].csv = <<CsvRows(analysis_results.emails)>>

\* C7: a failure writing one output does not stop the other: when writing
\* the tree document raises, the tabular export is still attempted (it is
\* written, or its own writing raised), and when writing the tabular export
\* raises the tree document is there.
C7_WriteFailureIsolated ==
    RunEnded =>
        /\ (ioFault = "json" /\ CsvWritten(analysis_results)) => CsvFileWritten
        /\ ioFault = "csv" => JsonWritten

(***************************************************************************)
(* C8                                                                      *)
(***************************************************************************)
TripleReadable(e) ==
    ~GetRaises(e.subject) /\ ~GetRaises(e.sender) /\ ~GetRaises(e.ctime)
SameTriple(d, e) ==
    /\ GetAttr(d.subject, Text("")) = GetAttr(e.subject, Text(""))
    /\ GetAttr(d.sender, Text("")) = GetAttr(e.sender, Text(""))
    /\ GetAttr(d.ctime, Text("")) = GetAttr(e.ctime, Text(""))

OwnedRecords(id) ==
    Cardinality({k \in 1..Len(analysis_results.attachments) :
                    analysis_results.attachments[k].email_id = id})

\* C9: in every tabular export, the attachments_count of each row is the
\* number of records of the corpus's attachments whose email_id is the
\* row's id.
C9_CountMatchesOwnedRecords ==
    (RunEnded /\ Reached("Serialized") /\ CsvWritten(analysis_results)) =>
        LET rows == outputs[fileIdx].csv[1]
        IN \A r \in 1..Len(rows) : rows[r].attachments_count = OwnedRecords(rows[r].id)

(***************************************************************************)
(* C10                                                                     *)
(***************************************************************************)
NoMessages == \A f \in Folders : Store.folders[f].msgs = <<>>
Stats == analysis_results.statistics

CsvText(x) == IF x.k = "none" THEN "" ELSE Str(x)

\* load_emails: one EmailRecord per row of the tabular export
LoadEmails(rows, account) ==
    [i \in 1..Len(rows) |->
        [id |-> rows[i].id,
         folder |-> rows[i].folder,
         subject |-> CsvText(rows[i].subject),
         sender_name |-> CsvText(rows[i].sender_name),
         sender_email |-> CsvText(rows[i].sender_email),
         delivery_time |-> CsvText(rows[i].delivery_time),
         size |-> CsvText(rows[i].size),
         attachments_count |-> ToString(rows[i].attachments_count),
         account |-> account,
         source_file |-> account \o "/emails.csv",
         synthetic_flag |-> 0]]

RECURSIVE SelectSeq2(_, _)
\* the elements of seq whose flag is set, in order
SelectSeq2(seq, keep) ==
    IF seq = <<>> THEN <<>>
    ELSE LET rest == SelectSeq2(SubSeq(seq, 1, Len(seq) - 1), SubSeq(keep, 1, Len(seq) - 1))
         IN IF keep[Len(seq)] THEN Append(rest, seq[Len(seq)]) ELSE rest

\* write_stats: senders counts only the records with a non-empty sender_email
MergeTopSenders(records) ==
    LET all == [i \in 1..Len(records) |-> records[i].sender_email]
        senderOf == SelectSeq2(all, [i \in 1..Len(all) |-> all[i] # ""])
        keys == FirstSeen(senderOf)
        items == [i \in 1..Len(keys) |-> <<keys[i], CountOf(senderOf, keys[i])>>]
        sorted == SortByCountDesc(items)
    IN SubSeq(sorted, 1, IF Len(sorted) < TopSendersLimit THEN Len(sorted) ELSE TopSendersLimit)

AccountsOf(records) ==
    LET accs == {records[i].account : i \in 1..Len(records)}
    IN [a \in accs |-> Cardinality({i \in 1..Len(records) : records[i].account = a})]

WriteStatsData(records, synthetic_added, now) ==
    [total_records |-> Len(records),
     synthetic_records |-> synthetic_added,
     accounts |-> AccountsOf(records),
     top_senders |-> MergeTopSenders(records),
     output_csv |-> "merged_emails.csv",
     generated_at |-> now]

\* write_stats(all_records, out_dir, merged_csv, 0)
WriteStats ==
    /\ all_records # <<>>
    /\ merge_stats = <<>>
    /\ merge_stats' = <<WriteStatsData(all_records, 0, clock)>>
    /\ UNCHANGED <<dirVars, pc, pst_file, analysis_results, walkVars, clock, diskVars,
                   phases, idLog, ioFault, all_records, closeCalls>>

\* ---- corpora with more senders than top_senders keeps
MaxSenders == 11
BlankSenderEmails == 3

SenderAddress(k) == IF k = 0 THEN "" ELSE "u" \o ToString(k) \o "@x"
Rep(k, c) == IF k = 0 THEN <<>> ELSE [i \in 1..c |-> k]

\* sender numbers of a corpus: some e-mails without sender address (0), one
\* e-mail of each of n senders, then more e-mails of up to two of them
SenderLists ==
    UNION {{[i \in 1..b |-> 0] \o [i \in 1..n |-> i] \o Rep(h1, e) \o Rep(h2, 3 - e) :
               h1 \in 0..n, h2 \in 0..n, e \in 1..2, b \in {0, BlankSenderEmails}} :
           n \in 1..MaxSenders}

SenderMessages(list) ==
    [i \in 1..Len(list) |-> Msg("m" \o ToString(i), SenderAddress(list[i]))]

\* the corpus extract_emails returns for a one-folder store
CorpusOf(msgs) ==
    [i \in 1..Len(msgs) |-> EmailData(msgs[i], "", OutputDir(1), GenerateEmailId(msgs[i], i - 1))]

\* a run just before generate_statistics, and the records the merge utility
\* loaded from the export of the same corpus
StatsInit ==
    \E list \in SenderLists :
        LET msgs == SenderMessages(list)
            corpus == CorpusOf(msgs)
        IN /\ files = <<[FlatStore(msgs) EXCEPT !.path = "f1.pst"]>>
           /\ fileIdx = 1
           /\ processed_files = <<>>
           /\ pc = "statistics"
           /\ pst_file = "open"
           /\ analysis_results = [EmptyResults EXCEPT !.emails = corpus]
           /\ stack = <<>>
           /\ clock = Len(msgs)
           /\ outputs = <<NoOutputs>>
           /\ attachment_files = {}
           /\ returned = <<>>
           /\ phases = <<"Closed", "Open", "Extracting">>
           /\ emailSrc = [i \in 1..Len(msgs) |-> <<1, i>>]
           /\ idLog = [i \in 1..Len(msgs) |->
                          [file |-> 1, now |-> i - 1,
                           subject |-> msgs[i].a.subject,
                           sender |-> msgs[i].a.sender_email_address,
                           ctime |-> msgs[i].a.creation_time,
                           id |-> corpus[i].id]]
           /\ ioFault = "none"
           /\ kindIdx = 1
           /\ all_records = LoadEmails(CsvRows(corpus), "acc1")
           /\ merge_stats = <<>>
    /\ closeCalls = 0
           /\ visits = <<1>>

StatsNext ==
    \/ Statistics
    \/ WriteStats

StatsSpec == StatsInit /\ [][StatsNext]_vars

(***************************************************************************)
(* C11                                                                     *)
(***************************************************************************)
Min(a, b) == IF a < b THEN a ELSE b
Keys(senderOf) == {senderOf[i] : i \in 1..Len(senderOf)}
Listed(top) == {top[i][1] : i \in 1..Len(top)}

\* top is a correct top-senders list of the senders senderOf
TopSendersOk(top, senderOf) ==
    /\ Len(top) = Min(TopSendersLimit, Cardinality(Keys(senderOf)))
    /\ \A i, j \in 1..Len(top) : i < j => (top[i][2] >= top[j][2] /\ top[i][1] # top[j][1])
    /\ \A i \in 1..Len(top) : top[i][2] = CountOf(senderOf, top[i][1]) /\ top[i][2] >= 1
    /\ \A s \in Keys(senderOf) \ Listed(top) :
          \A i \in 1..Len(top) : CountOf(senderOf, s) <= top[i][2]

EmailSenders == [i \in 1..Len(analysis_results.emails) |-> analysis_results.emails[i].sender_email]
RecordSenders ==
    LET all == [i \in 1..Len(all_records) |-> all_records[i].sender_email]
    IN SelectSeq2(all, [i \in 1..Len(all) |-> all[i] # ""])

\* C11: top_senders of generate_statistics, and of write_stats, has at most
\* 10 entries (as many as there are senders, up to 10), counts that do not
\* increase from first to last, for each entry the number of e-mails of that
\* sender as count, and no sender left out with a count greater than that of
\* a listed sender (write_stats takes as senders the non-empty addresses).
C11_TopSendersAreTheMostFrequent ==
    /\ "top_senders" \in DOMAIN Stats =>
          (Len(Stats.top_senders) <= TopSendersLimit
             /\ TopSendersOk(Stats.top_senders, EmailSenders))
    /\ merge_stats # <<>> =>
          (Len(merge_stats[1].top_senders) <= TopSendersLimit
             /\ TopSendersOk(merge_stats[1].top_senders, RecordSenders))

\* more than 10 senders, the most frequent of them met after ten others:
\* both lists are cut to 10 entries and start with it
C11_Witness ==
    /\ "top_senders" \in DOMAIN Stats /\ merge_stats # <<>>
    /\ Cardinality(Keys(RecordSenders)) > TopSendersLimit
    /\ Len(Stats.top_senders) = TopSendersLimit
    /\ Len(merge_stats[1].top_senders) = TopSendersLimit
    /\ merge_stats[1].top_senders[1] = <<SenderAddress(MaxSenders), 3>>
    /\ Stats.top_senders[1][2] = 3
    /\ Keys(EmailSenders) \ Listed(Stats.top_senders) # {}

(***************************************************************************)
(* C12                                                                     *)
(***************************************************************************)
\* persisting the attachment fails: no payload, an empty one, or the
\* directory creation or the file write raises
SaveFails(att) ==
    \/ ~HasAttr(att.data)
    \/ ~Truthy(att.data.val)
    \/ att.io \in {"mkdir", "write"}

\* the same attachment with a payload that is written
Persistable(att) == [att EXCEPT !.data = Ok(Bytes("d1")), !.io = "ok"]

\* the attachments of m that _extract_attachments reads
AttachmentsRead(m) ==
    IF HasAttr(m.a.attachments)
    THEN FirstBad([j \in 1..Len(m.atts) |-> AttachmentRaises(m.atts[j])]) - 1
    ELSE 0

CorpusHolds(rec) ==
    \E k \in 1..Len(analysis_results.attachments) : analysis_results.attachments[k] = rec

\* C12: when persisting the j-th attachment of a message fails, the
\* attachment still has its record, with no saved_path, in the e-mail's list
\* and in the corpus; the other attachments' records and every other field
\* of the e-mail are those of the same message with that attachment
\* persisted, and the payloads of the other attachments are on disk.
C12_FailedSaveKeepsRecord ==
    WalkDone =>
        \A p \in 1..Len(emailSrc) :
            LET m == MsgAt(emailSrc[p][1], emailSrc[p][2])
                e == analysis_results.emails[p]
                out == OutputDir(fileIdx)
            IN /\ Len(e.attachments) = AttachmentsRead(m)
               /\ \A j \in 1..AttachmentsRead(m) :
                     LET rec == e.attachments[j]
                         as_if == EmailData([m EXCEPT !.atts[j] = Persistable(@)],
                                            e.folder, out, e.id)
                     IN /\ CorpusHolds(rec)
                        /\ SaveFails(m.atts[j]) =>
                              /\ rec.saved_path = ""
                              /\ rec = [as_if.attachments[j] EXCEPT !.saved_path = ""]
                              /\ \A k \in 1..AttachmentsRead(m) :
                                    k # j => e.attachments[k] = as_if.attachments[k]
                              /\ [e EXCEPT !.attachments = <<>>]
                                     = [as_if EXCEPT !.attachments = <<>>]
                        /\ ~SaveFails(m.atts[j]) =>
                              \E w \in attachment_files : w[1] = rec.saved_path

\* an e-mail with two attachments: writing the first one raised, the second
\* one is on disk
C12_Witness ==
    /\ WalkDone
    /\ \E p \in 1..Len(emailSrc) :
          LET m == MsgAt(emailSrc[p][1], emailSrc[p][2])
              e == analysis_results.emails[p]
          IN /\ Len(e.attachments) = 2
             /\ m.atts[1].io = "write"
             /\ e.attachments[1].saved_path = ""
             /\ e.attachments[2].saved_path # ""
             /\ \E w \in attachment_files :
                   w = <<e.attachments[2].saved_path, m.atts[2].data.val.v>>

(***************************************************************************)
(* The walk over a store of one message whose last attachment has a given  *)
(* declared name: _save_attachment applied to every name of a bounded set. *)
(***************************************************************************)
MaxNameLen == 3
NameAlphabet == {"a", "1", " ", "-", "_", ".", ":", "*", "/"}
ExampleName == <<"a", ":", "b", "*", "c", ".", "t", "x", "t">>

DeclaredNames ==
    UNION {[1..n -> NameAlphabet] : n \in 0..MaxNameLen} \cup {ExampleName}

\* the named attachment alone (index 0), or after a plain one (index 1)
NameStores ==
    {FlatStore(<<[Msg("s1", "u@x") EXCEPT !.atts = before \o <<Attachment(name, "d1")>>]>>) :
        name \in DeclaredNames,
        before \in {<<>>, <<Attachment(<<"b">>, "d2")>>}}

NameInit ==
    /\ files \in {WithPaths(<<s>>) : s \in NameStores}
    /\ fileIdx = 0
    /\ processed_files = <<>>
    /\ pc = "dir_loop"
    /\ pst_file = "none"
    /\ analysis_results = EmptyResults
    /\ stack = <<>>
    /\ clock = 0
    /\ outputs = [i \in 1..Len(files) |-> NoOutputs]
    /\ attachment_files = {}
    /\ returned = <<>>
    /\ phases = <<>>
    /\ emailSrc = <<>>
    /\ idLog = <<>>
    /\ ioFault = "none"
    /\ kindIdx = 1
    /\ all_records = <<>>
    /\ merge_stats = <<>>
    /\ closeCalls = 0
    /\ visits = <<>>

NameNext ==
    \/ AnalyzePstFile
    \/ OpenOk
    \/ WalkStart
    \/ WalkSubFoldersDone
    \/ WalkMessage
    \/ WalkReturn

NameSpec == NameInit /\ [][NameNext]_vars

(***************************************************************************)
(* C13                                                                     *)
(***************************************************************************)
Allowed(c) == c \in AlnumChars \/ c = " " \/ c = "-" \/ c = "_" \/ c = "."

RECURSIVE OnlyAllowed(_)
\* the characters of name that are allowed, in their order
OnlyAllowed(name) ==
    IF name = <<>> THEN <<>>
    ELSE IF Allowed(Head(name)) THEN <<Head(name)>> \o OnlyAllowed(Tail(name))
    ELSE OnlyAllowed(Tail(name))

\* chars up to its last character that is not a space
Trimmed(chars) ==
    LET solid == {i \in 1..Len(chars) : chars[i] # " "}
    IN IF solid = {} THEN <<>>
       ELSE SubSeq(chars, 1, CHOOSE i \in solid : \A j \in solid : j <= i)

ExpectedFileName(name, index) ==
    IF Trimmed(OnlyAllowed(name)) = <<>>
    THEN <<"a", "t", "t", "a", "c", "h", "m", "e", "n", "t", "_", ToString(index)>>
    ELSE Trimmed(OnlyAllowed(name))

\* a name that designates a file directly inside the directory
PlainFileName(chars) ==
    /\ chars # <<>>
    /\ \A i \in 1..Len(chars) : chars[i] # "/"
    /\ chars \notin {<<".">>, <<".", ".">>}

ExpectedPath(m, j, email_id) ==
    AttachmentsDir(OutputDir(fileIdx), email_id) \o "/"
        \o Join(ExpectedFileName(m.atts[j].name.val.v, j - 1))

\* C13: the file name _save_attachment uses for an attachment of index i is
\* its declared name without the characters that are not alphanumerics,
\* space, hyphen, underscore or dot, and without trailing spaces, or
\* attachment_<i> when nothing is left; the payload is written under that
\* name directly inside <output_root>/attachments/<owner_id>/, and nothing
\* is written anywhere else (for a name reduced to "." or ".." nothing is
\* written at all).
C13_SanitizedNameInsideDirectory ==
    /\ \A p \in 1..Len(emailSrc) :
          LET m == MsgAt(emailSrc[p][1], emailSrc[p][2])
              e == analysis_results.emails[p]
          IN \A j \in 1..Len(e.attachments) :
                LET used == ExpectedFileName(m.atts[j].name.val.v, j - 1)
                IN IF PlainFileName(used)
                   THEN /\ e.attachments[j].saved_path = ExpectedPath(m, j, e.id)
                        /\ <<ExpectedPath(m, j, e.id), m.atts[j].data.val.v>>
                               \in attachment_files
                   ELSE /\ used \in {<<".">>, <<".", ".">>}
                        /\ e.attachments[j].saved_path = ""
    /\ \A w \in attachment_files :
          \E f \in Folders : \E i \in MsgIdx(f) :
              LET m == MsgAt(f, i)
              IN \E j \in 1..Len(m.atts) :
                    /\ PlainFileName(ExpectedFileName(m.atts[j].name.val.v, j - 1))
                    /\ w[1] = ExpectedPath(m, j, Md5Hex16(IdContent(m)))

\* "a:b*c.txt", declared by the second attachment of an e-mail, saved as
\* abc.txt
C13_Witness ==
    /\ pc = "extract_other" /\ Len(emailSrc) = 1
    /\ Len(MsgAt(1, 1).atts) = 2
    /\ MsgAt(1, 1).atts[2].name.val.v = ExampleName
    /\ analysis_results.emails[1].attachments[2].saved_path
          = AttachmentsDir(OutputDir(1), analysis_results.emails[1].id) \o "/abc.txt"
    /\ \E w \in attachment_files :
          w = <<analysis_results.emails[1].attachments[2].saved_path, "d1">>

(***************************************************************************)
(* C14                                                                     *)
(***************************************************************************)
FolderNameOf(f) == Str(Store.folders[f].name.val)

RECURSIVE JoinBySlash(_)
\* '/'.join(names)
JoinBySlash(names) ==
    IF names = <<>> THEN ""
    ELSE IF Len(names) = 1 THEN names[1]
    ELSE names[1] \o "/" \o JoinBySlash(Tail(names))

\* the names on the path from the root's child down to f (none for the root)
PathNames(f) == [k \in 1..(Len(Chain(f)) - 1) |-> FolderNameOf(Chain(f)[k + 1])]

\* C14: the folder field of every e-mail record is the empty string for a
\* message of the root folder, and otherwise the names of the folders from
\* the root's child down to the message's folder, joined by '/'.
C14_FolderIsJoinedPath ==
    (WalkDone /\ NoListingFault) =>
        \A p \in 1..Len(emailSrc) :
            analysis_results.emails[p].folder = JoinBySlash(PathNames(emailSrc[p][1]))

(***************************************************************************)
(* C15                                                                     *)
(***************************************************************************)
\* the messages of the tree: <<folder, index>>
AllMessages == UNION {{<<f, i>> : i \in MsgIdx(f)} : f \in Folders}

\* no listing and no attribute access raises, and the bodies are values that
\* can be sliced (text, bytes or None)
NoAccessFails ==
    /\ NoListingFault
    /\ \A fi \in AllMessages :
          LET m == MsgAt(fi[1], fi[2])
          IN /\ \A at \in MsgAttrs : ~GetRaises(m.a[at])
             /\ ~SliceRaises(DecodeIfBytes(GetAttr(m.a.plain_text_body, Text(""))))
             /\ ~SliceRaises(DecodeIfBytes(GetAttr(m.a.html_body, Text(""))))

\* C15: on a folder tree in which no access fails, extract_emails is called
\* on every folder exactly once (never twice at any moment of the walk), and
\* the list it returns has exactly one record for every message of the
\* tree, so that total_emails is the number of messages of the tree.
C15_EveryMessageOnce ==
    /\ fileIdx >= 1 => \A f \in Folders : Occurrences(visits, f) <= 1
    /\ (WalkDone /\ NoAccessFails) =>
          /\ \A f \in Folders : Occurrences(visits, f) = 1
          /\ \A fi \in AllMessages : Occurrences(emailSrc, fi) = 1
          /\ Len(emailSrc) = Cardinality(AllMessages)
          /\ EmailsFollowSrc
          /\ Reached("Aggregated") => Stats.total_emails = Cardinality(AllMessages)

\* a tree of nested folders with three messages, walked and counted
C15_Witness ==
    /\ WalkDone /\ NoAccessFails /\ Reached("Aggregated")
    /\ Len(Store.folders) >= 3
    /\ \E f, g \in Folders : f # 1 /\ IsChild(f, g)
    /\ Stats.total_emails = 3
    /\ Len(visits) = Len(Store.folders)

(***************************************************************************)
(* C16: the runs of analyze_directory.                                     *)
(***************************************************************************)
\* the path lies in the output directory of the k-th file
InOutputDir(path, k) ==
    LET dir == OutputDir(k) \o "/"
    IN Len(path) > Len(dir) /\ SubSeq(path, 1, Len(dir)) = dir

\* the files whose run returned True, in the order of the loop
RECURSIVE SuccessfulFiles(_)
SuccessfulFiles(n) ==
    IF n = 0 THEN <<>>
    ELSE IF returned[n] THEN Append(SuccessfulFiles(n - 1), files[n].path)
    ELSE SuccessfulFiles(n - 1)

\* the corpus holds records of the current store only
OwnCorpus ==
    /\ Len(analysis_results.emails) <= Cardinality(AllMessages)
    /\ WalkDone => EmailsFollowSrc
    /\ \A p \in 1..Len(emailSrc) : emailSrc[p] \in AllMessages
    /\ \A j \in 1..Len(analysis_results.attachments) :
          LET a == analysis_results.attachments[j]
          IN /\ a.saved_path = "" \/ InOutputDir(a.saved_path, fileIdx)
             /\ \E fi \in AllMessages :
                   \E q \in 1..Len(MsgAt(fi[1], fi[2]).atts) :
                      a = AttachmentData(MsgAt(fi[1], fi[2]).atts[q], OutputDir(fileIdx),
                                         a.email_id, q - 1)

C17_NoBytesBeforeCleanup ==
    pc = "save_json" => CleanForJson(analysis_results) = analysis_results

(***************************************************************************)
(* C18: the release of the store.                                          *)
(***************************************************************************)
\* C18 (as stated): in a run whose open succeeded, pst_file.close() is not
\* called before the extraction, the aggregation and the writes are over, it
\* has been called exactly once when perform_full_analysis returns, with True
\* or with False, and no exception leaves perform_full_analysis.
C18_ClosedExactlyOnce ==
    /\ (Opened /\ pc \notin {"except", "record", "crashed", "dir_loop", "done"}) =>
          closeCalls = 0
    /\ (RunEnded /\ Opened) => closeCalls = 1
    /\ pc # "crashed"

(***************************************************************************)
(* C19: the attachments collection against the emails' attachment lists.   *)
(***************************************************************************)
RECURSIVE AttachmentCount(_)
\* sum(len(e['attachments']) for e in emails)
AttachmentCount(emails) ==
    IF emails = <<>> THEN 0
    ELSE Len(Head(emails).attachments) + AttachmentCount(Tail(emails))

\* the emails of the corpus with the given id
EmailsWithId(id) ==
    {p \in 1..Len(analysis_results.emails) : analysis_results.emails[p].id = id}

\* C19 (as stated): once extract_emails has returned, every record of
\* analysis_results['attachments'] has the id of exactly one email of
\* analysis_results['emails'] and is an element of that email's attachments
\* list, and the number of records (total_attachments) is the sum of the
\* lengths of the emails' attachments lists.
C19_AttachmentsBelongToOneEmail ==
    WalkDone =>
       /\ \A j \in 1..Len(analysis_results.attachments) :
             LET a == analysis_results.attachments[j]
             IN /\ Cardinality(EmailsWithId(a.email_id)) = 1
                /\ \A p \in EmailsWithId(a.email_id) :
                      \E q \in 1..Len(analysis_results.emails[p].attachments) :
                         analysis_results.emails[p].attachments[q] = a
       /\ Len(analysis_results.attachments) = AttachmentCount(analysis_results.emails)
       /\ Reached("Aggregated") =>
             Stats.total_attachments = AttachmentCount(analysis_results.emails)

(***************************************************************************)
(* C20: the kinds a message is normalized into.                            *)
(***************************************************************************)
\* the kinds of which the message <<folder, index>> gave a record of the corpus
KindsOf(fi) ==
    {k \in {KindOrder[j] : j \in 1..Len(KindOrder)} :
        LET f == FindFolderByName(Store, KindFolderName(k))
        IN /\ f = fi[1]
           /\ Store.folders[f].msgFail = 0 \/ fi[2] < Store.folders[f].msgFail
           /\ ~KindRaises(k, MsgAt(fi[1], fi[2]))}
    \cup (IF \E p \in 1..Len(emailSrc) : emailSrc[p] = fi THEN {"emails"} ELSE {})

\* C20 (as stated): when the six extractions are over, every message of the
\* store has given a record of at most one kind: a message of the folder
\* taken for contacts, calendar, tasks, notes or journal has no record in
\* analysis_results['emails'].
C20_OneKindPerMessage ==
    (fileIdx >= 1 /\ Reached("Aggregated")) =>
        \A fi \in AllMessages : Cardinality(KindsOf(fi)) <= 1

(***************************************************************************)
(* C21: the paths of the saved attachments of one run.                     *)
(***************************************************************************)
\* the records of analysis_results['attachments'] whose payload was saved
SavedRecords ==
    {j \in 1..Len(analysis_results.attachments) :
        analysis_results.attachments[j].saved_path # ""}

\* C21 (as stated): within one run, two different attachments that were both
\* saved never have the same saved_path, so that every saved record has its
\* own file with its own payload in the output directory of the run.
C21_SavedPathsDistinct ==
    fileIdx >= 1 =>
       /\ \A i, j \in SavedRecords :
             i # j => analysis_results.attachments[i].saved_path
                         # analysis_results.attachments[j].saved_path
       /\ Cardinality({w \in attachment_files : InOutputDir(w[1], fileIdx)})
             = Cardinality(SavedRecords)

====
